---- MODULE Spec2Model ----
(***************************************************************************)
(* Model of the virtual row store of parallium (VirtualDataStore): the     *)
(* chunked index builder, the lazy row fetch with its CSV field parser,    *)
(* and the store lifecycle (loadFile / getRow / clear).                    *)
(*                                                                         *)
(* A source is a sequence of bytes; text is a sequence of characters.      *)
(* Bytes and characters are one-token strings.  Besides the ASCII bytes    *)
(* the byte alphabet holds the two bytes of one 2-byte UTF-8 character     *)
(* (C3 A9), so that a chunk boundary can fall inside a character.          *)
(***************************************************************************)
EXTENDS Integers, Sequences, FiniteSets, TLC

VARIABLES
    file,        \* this.file: NoFile or a byte source
    rowIndex,    \* this.rowIndex: row number -> [offset, length]
    rowCache,    \* this.rowCache: recency-ordered entries, least recent first
    totalRows,   \* this.totalRows
    isIndexed,   \* this.isIndexed
    ld,          \* the in-flight loadFile/buildIndex call (its locals and position)
    gr,          \* the in-flight getRow call (its locals and position)
    ret,         \* outcome of the last getRow call that returned or threw
    chunkSize,   \* CHUNK_SIZE of the build, scaled down
    phase,       \* lifecycle history: which operation last changed the store
    loadsLeft,   \* how many more loadFile calls the environment makes
    oldRows,     \* ParsedRows that were cached when the current load began
    pool,        \* which set of sources the environment loads from
    ldB,         \* a second loadFile call, begun while the first is in flight
    gs,          \* the getRows call: its locals and position, then its result
    progress,    \* the values passed to onProgress by the loadFile call of ld
    recent,      \* the CacheSize most recently used distinct keys, least recent first
    grid         \* the Parallium grid: rows, columns and its loadFile call

vars == <<file, rowIndex, rowCache, totalRows, isIndexed, ld, gr, ret,
          chunkSize, phase, loadsLeft, oldRows, pool, ldB, gs, progress, recent, grid>>

----------------------------------------------------------------------------
(* Bounds *)

MaxLen == 3          \* longest source of the exhaustive source set, in bytes
MaxLoads == 2        \* loadFile calls per behaviour of the lifecycle specification
CacheSize == 2       \* capacity of the row cache (constructor argument)
MaxLine == 5         \* longest line of the exhaustive line set, in characters

CHUNK_SIZE == 1048576    \* 1024 * 1024: every source of the model is one chunk

----------------------------------------------------------------------------
(* Bytes, characters and the UTF-8 conversions *)

NL == "\n"
SP == " "
COMMA == ","
QUOTE == "\""
LeadByte == "C3"     \* first byte of the 2-byte character
ContByte == "A9"     \* its continuation byte
EAcute == "U+00E9"   \* the character C3 A9 decodes to
Replacement == "U+FFFD"  \* what a malformed byte decodes to

Min(a, b) == IF a < b THEN a ELSE b

\* TextEncoder.encode(c).length for one character.
CharBytes(c) ==
    IF c = EAcute THEN 2
    ELSE IF c = Replacement THEN 3
    ELSE 1

\* new TextEncoder().encode(text).length
RECURSIVE ByteLen(_)
ByteLen(text) ==
    IF text = << >> THEN 0
    ELSE CharBytes(Head(text)) + ByteLen(Tail(text))

\* Blob.text(): UTF-8 decoding with replacement of malformed sequences.
RECURSIVE Decode(_)
Decode(bytes) ==
    IF bytes = << >> THEN << >>
    ELSE IF Head(bytes) = LeadByte
         THEN IF Len(bytes) >= 2 /\ bytes[2] = ContByte
              THEN <<EAcute>> \o Decode(SubSeq(bytes, 3, Len(bytes)))
              ELSE <<Replacement>> \o Decode(Tail(bytes))
    ELSE IF Head(bytes) = ContByte
         THEN <<Replacement>> \o Decode(Tail(bytes))
    ELSE <<Head(bytes)>> \o Decode(Tail(bytes))

\* Blob.slice(start, end) on non-negative arguments: both ends clamp to the size.
Slice(bytes, start, end) ==
    SubSeq(bytes, Min(start, Len(bytes)) + 1, Min(end, Len(bytes)))

IsSpace(c) == c \in {NL, SP}

RECURSIVE TrimStart(_)
TrimStart(text) ==
    IF text # << >> /\ IsSpace(Head(text)) THEN TrimStart(Tail(text)) ELSE text

RECURSIVE TrimEnd(_)
TrimEnd(text) ==
    IF text # << >> /\ IsSpace(text[Len(text)])
    THEN TrimEnd(SubSeq(text, 1, Len(text) - 1))
    ELSE text

\* String.prototype.trim
Trim(text) == TrimEnd(TrimStart(text))

\* String.prototype.lastIndexOf for a one-character needle: 0-based, -1 if absent.
LastIndexOf(text, c) ==
    LET hits == {i \in 1..Len(text) : text[i] = c}
    IN  IF hits = {} THEN -1
        ELSE (CHOOSE i \in hits : \A j \in hits : j <= i) - 1

\* String.prototype.split for a one-character separator.
RECURSIVE SplitFrom(_, _, _)
SplitFrom(text, c, cur) ==
    IF text = << >> THEN <<cur>>
    ELSE IF Head(text) = c THEN <<cur>> \o SplitFrom(Tail(text), c, << >>)
    ELSE SplitFrom(Tail(text), c, Append(cur, Head(text)))

Split(text, c) == SplitFrom(text, c, << >>)

----------------------------------------------------------------------------
(* parseCSVLine *)

\* The while loop of parseCSVLine from position i (1-based) on.
RECURSIVE ParseFrom(_, _, _, _, _)
ParseFrom(line, i, cells, currentCell, insideQuotes) ==
    IF i > Len(line) THEN Append(cells, Trim(currentCell))
    ELSE IF line[i] = QUOTE
         THEN IF insideQuotes /\ i + 1 <= Len(line) /\ line[i + 1] = QUOTE
              THEN ParseFrom(line, i + 2, cells, Append(currentCell, QUOTE), insideQuotes)
              ELSE ParseFrom(line, i + 1, cells, currentCell, ~insideQuotes)
    ELSE IF line[i] = COMMA /\ ~insideQuotes
         THEN ParseFrom(line, i + 1, Append(cells, Trim(currentCell)), << >>, insideQuotes)
    ELSE ParseFrom(line, i + 1, cells, Append(currentCell, line[i]), insideQuotes)

\* parseCSVLine without lines 215-218: every quote toggles, none is an escape.
RECURSIVE ParseFromNoEscape(_, _, _, _, _)
ParseFromNoEscape(line, i, cells, currentCell, insideQuotes) ==
    IF i > Len(line) THEN Append(cells, Trim(currentCell))
    ELSE IF line[i] = QUOTE
         THEN ParseFromNoEscape(line, i + 1, cells, currentCell, ~insideQuotes)
    ELSE IF line[i] = COMMA /\ ~insideQuotes
         THEN ParseFromNoEscape(line, i + 1, Append(cells, Trim(currentCell)), << >>,
                                insideQuotes)
    ELSE ParseFromNoEscape(line, i + 1, cells, Append(currentCell, line[i]), insideQuotes)

ParseCSVLineNoEscape(line) == ParseFromNoEscape(line, 1, << >>, << >>, FALSE)

\* parseCSVLine that pushes the last cell only when it has collected characters.
RECURSIVE ParseFromDropsEmptyLast(_, _, _, _, _)
ParseFromDropsEmptyLast(line, i, cells, currentCell, insideQuotes) ==
    IF i > Len(line)
    THEN IF currentCell = << >> THEN cells ELSE Append(cells, Trim(currentCell))
    ELSE IF line[i] = QUOTE
         THEN IF insideQuotes /\ i + 1 <= Len(line) /\ line[i + 1] = QUOTE
              THEN ParseFromDropsEmptyLast(line, i + 2, cells,
                                           Append(currentCell, QUOTE), insideQuotes)
              ELSE ParseFromDropsEmptyLast(line, i + 1, cells, currentCell, ~insideQuotes)
    ELSE IF line[i] = COMMA /\ ~insideQuotes
         THEN ParseFromDropsEmptyLast(line, i + 1, Append(cells, Trim(currentCell)),
                                      << >>, insideQuotes)
    ELSE ParseFromDropsEmptyLast(line, i + 1, cells, Append(currentCell, line[i]),
                                 insideQuotes)

ParseCSVLineDropsEmptyLast(line) == ParseFromDropsEmptyLast(line, 1, << >>, << >>, FALSE)

ParseCSVLine(line) == ParseFrom(line, 1, << >>, << >>, FALSE)

----------------------------------------------------------------------------
(* LRUCache: a sequence of [key, value], least recently used first *)

CacheKeys(c) == {c[i].key : i \in 1..Len(c)}

CacheHas(c, k) == k \in CacheKeys(c)

CachePos(c, k) == CHOOSE i \in 1..Len(c) : c[i].key = k

CacheWithout(c, k) ==
    IF CacheHas(c, k)
    THEN SubSeq(c, 1, CachePos(c, k) - 1) \o SubSeq(c, CachePos(c, k) + 1, Len(c))
    ELSE c

\* get(key) that leaves the recency order as it was.
CacheTouchKeepsOrder(c, k) == c

\* get(key) on a present key: the value, and the cache with the entry made most recent.
CacheValue(c, k) == c[CachePos(c, k)].value

CacheTouch(c, k) ==
    IF CacheHas(c, k) THEN Append(CacheWithout(c, k), c[CachePos(c, k)]) ELSE c

\* set(key, value) that never evicts.
CacheSetNoEvict(c, k, v, capacity) ==
    Append(CacheWithout(c, k), [key |-> k, value |-> v])

\* set(key, value): overwrite counts as a use; a new key on a full cache evicts the head.
CacheSet(c, k, v, capacity) ==
    IF CacheHas(c, k) THEN Append(CacheWithout(c, k), [key |-> k, value |-> v])
    ELSE IF Len(c) >= capacity THEN Append(Tail(c), [key |-> k, value |-> v])
    ELSE Append(c, [key |-> k, value |-> v])

----------------------------------------------------------------------------
(* buildIndex *)

NoFile == [isNull |-> TRUE, bytes |-> << >>]
FileOf(bytes) == [isNull |-> FALSE, bytes |-> bytes]

EmptyIndex == [k \in {} |-> [offset |-> 0, length |-> 0]]

\* Map.set
MapSet(m, k, v) == [x \in DOMAIN m \cup {k} |-> IF x = k THEN v ELSE m[x]]

\* The locals of buildIndex at its declaration (lines 63-67), not yet running.
IdleLoad ==
    [pc |-> "idle", fileOffset |-> 0, rowNumber |-> 0, currentRowStart |-> 0,
     bufferOffset |-> 0, buffer |-> << >>, chunkEnd |-> 0, text |-> << >>]

\* The for loop over lines without the break of lines 98-100.
RECURSIVE IndexLinesNoBreak(_, _, _, _)
IndexLinesNoBreak(lines, i, currentRowStart, s) ==
    IF i > Len(lines) THEN s
    ELSE LET lineLength == ByteLen(Append(lines[i], NL))
         IN  IndexLinesNoBreak(lines, i + 1, currentRowStart,
                 [rowNumber |-> s.rowNumber + 1,
                  bufferOffset |-> s.bufferOffset + lineLength,
                  idx |-> MapSet(s.idx, s.rowNumber,
                                 [offset |-> currentRowStart + s.bufferOffset,
                                  length |-> lineLength])])

\* The for loop over lines (94-112) from line i (1-based) on; s holds the
\* rowNumber, bufferOffset and index it updates.
RECURSIVE IndexLines(_, _, _, _)
IndexLines(lines, i, currentRowStart, s) ==
    IF i > Len(lines) THEN s
    ELSE IF i = Len(lines) /\ lines[i] = << >> THEN s
    ELSE LET lineLength == ByteLen(Append(lines[i], NL))
         IN  IndexLines(lines, i + 1, currentRowStart,
                 [rowNumber |-> s.rowNumber + 1,
                  bufferOffset |-> s.bufferOffset + lineLength,
                  idx |-> MapSet(s.idx, s.rowNumber,
                                 [offset |-> currentRowStart + s.bufferOffset,
                                  length |-> lineLength])])

\* The loop body after the awaited chunk text has arrived (76-122); size is
\* this.file.size.  Gives the new locals and the new index.
ProcessChunk(l, idx, size) ==
    LET buffer == l.buffer \o l.text
        lastNewlineIndex == LastIndexOf(buffer, NL)
    IN  IF lastNewlineIndex = -1 /\ l.chunkEnd < size
        THEN [l |-> [l EXCEPT !.buffer = buffer, !.fileOffset = l.chunkEnd],
              idx |-> idx]
        ELSE LET completeText == IF lastNewlineIndex >= 0
                                 THEN SubSeq(buffer, 1, lastNewlineIndex + 1)
                                 ELSE buffer
                 lines == Split(completeText, NL)
                 s == IndexLines(lines, 1, l.currentRowStart,
                                 [rowNumber |-> l.rowNumber,
                                  bufferOffset |-> l.bufferOffset,
                                  idx |-> idx])
             IN  IF lastNewlineIndex >= 0
                 THEN [l |-> [l EXCEPT !.buffer = SubSeq(buffer, lastNewlineIndex + 2, Len(buffer)),
                                       !.rowNumber = s.rowNumber,
                                       !.currentRowStart = l.currentRowStart + s.bufferOffset,
                                       !.bufferOffset = 0,
                                       !.fileOffset = l.chunkEnd],
                       idx |-> s.idx]
                 ELSE [l |-> [l EXCEPT !.buffer = buffer,
                                       !.rowNumber = s.rowNumber,
                                       !.bufferOffset = s.bufferOffset,
                                       !.fileOffset = l.chunkEnd],
                       idx |-> s.idx]

\* The handling of the last line after the loop (131-141): the new index and totalRows.
FinishIndex(l, idx) ==
    IF Trim(l.buffer) # << >>
    THEN [idx |-> MapSet(idx, l.rowNumber,
                         [offset |-> l.currentRowStart + l.bufferOffset,
                          length |-> ByteLen(l.buffer)]),
          total |-> l.rowNumber + 1]
    ELSE [idx |-> idx, total |-> l.rowNumber]

\* The loop test and what follows it up to the next suspension (69-73, 131-141):
\* either the next chunk is sliced and its text awaited, or the index is finished
\* and buildIndex returns to the awaiting loadFile.
LoopHead(l, idx, total, bytes, cs) ==
    IF l.fileOffset < Len(bytes)
    THEN LET chunkEnd == Min(l.fileOffset + cs, Len(bytes))
         IN  [l |-> [l EXCEPT !.pc = "await_chunk",
                              !.chunkEnd = chunkEnd,
                              !.text = Decode(Slice(bytes, l.fileOffset, chunkEnd))],
              idx |-> idx, total |-> total]
    ELSE LET fin == FinishIndex(l, idx)
         IN  [l |-> [l EXCEPT !.pc = "await_build", !.text = << >>],
              idx |-> fin.idx, total |-> fin.total]

\* One resumption of buildIndex: the rest of the iteration, then the loop test.
BuildResume(l, idx, total, bytes, cs) ==
    LET p == ProcessChunk(l, idx, Len(bytes))
    IN  LoopHead(p.l, p.idx, total, bytes, cs)

\* buildIndex run to its end without interference.
RECURSIVE RunBuild(_, _, _)
RunBuild(s, bytes, cs) ==
    IF s.l.pc = "await_chunk"
    THEN RunBuild(BuildResume(s.l, s.idx, s.total, bytes, cs), bytes, cs)
    ELSE s

\* The index and row count a fresh store builds for a source with chunk size cs.
IndexOf(bytes, cs) ==
    LET s == RunBuild(LoopHead(IdleLoad, EmptyIndex, 0, bytes, cs), bytes, cs)
    IN  [idx |-> s.idx, total |-> s.total]

----------------------------------------------------------------------------
(* The environment's inputs *)

Bytes == {"a", COMMA, NL, SP, LeadByte, ContByte}

\* Every source of at most MaxLen bytes.
Sources == UNION {[1..k -> Bytes] : k \in 0..MaxLen}

\* The sources of the lifecycle specification.
FileBoundary == <<"p", COMMA, "q", NL, "r", COMMA, "s">>
FileTrailer == <<"a", COMMA, "b", NL, "1", COMMA, "2", NL, NL>>
FileShort == <<"x", COMMA, "y", NL>>
Files == {FileBoundary, FileTrailer, FileShort, << >>}

\* The source of the round trip example.
FileRoundTrip ==
    <<"a", COMMA, "b", COMMA, "c", NL,
      "1", COMMA, QUOTE, "x", COMMA, "y", QUOTE, COMMA, "3", NL>>

\* Every one-line source of at most MaxLine characters before its terminator.
LineChars == {"a", COMMA, QUOTE, SP}

LineSources ==
    {Append(line, NL) : line \in UNION {[1..k -> LineChars] : k \in 0..MaxLine}}
        \cup {FileRoundTrip}

\* Every source of at most MaxLen bytes followed by a final terminator.
TerminatedSources == {Append(bytes, NL) : bytes \in Sources}

Pool ==
    CASE pool = "all" -> Sources
      [] pool = "lines" -> LineSources
      [] pool = "grid" -> Files \cup {FileRoundTrip}
      [] pool = "terminated" -> TerminatedSources
      [] OTHER -> Files

\* The build's chunk size: the program's, or one small enough to cut a source.
ChunkSizes == (1..MaxLen) \cup {CHUNK_SIZE}

\* Row numbers the environment asks for.
RowArgs == -1..(MaxLen + 1)

----------------------------------------------------------------------------
(* The store's operations *)

IdleGet == [pc |-> "idle", rowNumber |-> 0, text |-> << >>]

NoReturn == [kind |-> "none"]

\* No getRows call: its locals at declaration.
IdleRows == [pc |-> "idle", startRow |-> 0, endRow |-> 0, i |-> 0, rows |-> << >>]

RowsRunning == gs.pc = "await_row"

Quiescent == ld.pc = "idle" /\ ldB.pc = "idle" /\ gr.pc = "idle" /\ ~RowsRunning

\* Whether the iteration ends at the continue of line 84, before any progress report.
SkipsChunk(l, size) ==
    LastIndexOf(l.buffer \o l.text, NL) = -1 /\ l.chunkEnd < size

\* Math.min((fileOffset / size) * 100, 100) as the exact fraction num / den.
Percent(fileOffset, size) ==
    IF fileOffset * 100 > 100 * size THEN [num |-> 100, den |-> 1]
    ELSE [num |-> fileOffset * 100, den |-> size]

\* The progress report computed before line 122 has advanced fileOffset.
ReportedPercentStale(l, size) == Percent(l.fileOffset, size)

\* The value passed to onProgress at the end of an iteration (122-127), where
\* fileOffset has just become chunkEnd.
ReportedPercent(l, size) == Percent(l.chunkEnd, size)

\* The grid as constructed (Parallium.ts 614-623): no loadFile call in flight.
DefaultRows == 1000
DefaultColumns == 26

\* SelectionManager's null for a cell (WebGPURenderer.ts 461-464).
NoCell == [isNull |-> TRUE, row |-> 0, col |-> 0]

CellOf(row, col) == [isNull |-> FALSE, row |-> row, col |-> col]

\* No event delivered yet.
NoEvent == [target |-> "none", key |-> "none"]

IdleGrid ==
    [pc |-> "idle", rows |-> DefaultRows, columns |-> DefaultColumns,
     usingVirtualData |-> FALSE, outcome |-> "none",
     frame |-> "none", frameRow |-> 0, frameEnd |-> 0,
     selected |-> NoCell, editing |-> NoCell, inputShown |-> FALSE,
     event |-> NoEvent]

\* The most recently used distinct keys after a use of key k, at most n of them.
Use(keys, k, n) ==
    LET others == SelectSeq(keys, LAMBDA x : x # k)
        all == Append(others, k)
    IN  IF Len(all) > n THEN SubSeq(all, Len(all) - n + 1, Len(all)) ELSE all

\* loadFile without line 41: the ready flag survives the start of a load.
LoadFileKeepsReady(bytes) ==
    LET s == LoopHead([IdleLoad EXCEPT !.pc = "start"], EmptyIndex, totalRows,
                      bytes, chunkSize)
    IN  /\ file' = FileOf(bytes)
        /\ rowIndex' = s.idx
        /\ rowCache' = << >>
        /\ totalRows' = s.total
        /\ ld' = s.l
        /\ phase' = "indexing"
        /\ loadsLeft' = loadsLeft - 1
        /\ oldRows' = {rowCache[i].value : i \in 1..Len(rowCache)}
        /\ ret' = NoReturn
        /\ progress' = << >>
        /\ recent' = << >>
        /\ UNCHANGED <<isIndexed, gr, chunkSize, pool, ldB, gs>>

\* loadFile that does not await buildIndex: line 48 runs before indexing ends.
LoadFileNoAwait(bytes) ==
    LET s == LoopHead([IdleLoad EXCEPT !.pc = "start"], EmptyIndex, totalRows,
                      bytes, chunkSize)
    IN  /\ file' = FileOf(bytes)
        /\ rowIndex' = s.idx
        /\ rowCache' = << >>
        /\ isIndexed' = TRUE
        /\ totalRows' = s.total
        /\ ld' = s.l
        /\ phase' = "indexing"
        /\ loadsLeft' = loadsLeft - 1
        /\ oldRows' = {rowCache[i].value : i \in 1..Len(rowCache)}
        /\ ret' = NoReturn
        /\ progress' = << >>
        /\ recent' = << >>
        /\ UNCHANGED <<gr, chunkSize, pool, ldB, gs>>

\* loadFile without line 40: the row cache survives the load.
LoadFileKeepsCache(bytes) ==
    LET s == LoopHead([IdleLoad EXCEPT !.pc = "start"], EmptyIndex, totalRows,
                      bytes, chunkSize)
    IN  /\ file' = FileOf(bytes)
        /\ rowIndex' = s.idx
        /\ isIndexed' = FALSE
        /\ totalRows' = s.total
        /\ ld' = s.l
        /\ phase' = "indexing"
        /\ loadsLeft' = loadsLeft - 1
        /\ oldRows' = {rowCache[i].value : i \in 1..Len(rowCache)}
        /\ ret' = NoReturn
        /\ progress' = << >>
        /\ recent' = << >>
        /\ UNCHANGED <<rowCache, gr, chunkSize, pool, ldB, gs>>

\* loadFile up to its first suspension: the reset (38-41), then buildIndex as
\* far as the first awaited chunk, or to its end for an empty source.
LoadFile(bytes) ==
    LET s == LoopHead([IdleLoad EXCEPT !.pc = "start"], EmptyIndex, totalRows,
                      bytes, chunkSize)
    IN  /\ file' = FileOf(bytes)
        /\ rowIndex' = s.idx
        /\ rowCache' = << >>
        /\ isIndexed' = FALSE
        /\ totalRows' = s.total
        /\ ld' = s.l
        /\ phase' = "indexing"
        /\ loadsLeft' = loadsLeft - 1
        /\ oldRows' = {rowCache[i].value : i \in 1..Len(rowCache)}
        /\ ret' = NoReturn
        /\ progress' = << >>
        /\ recent' = << >>
        /\ UNCHANGED <<gr, chunkSize, pool, ldB, gs>>

\* buildIndex resumes with the chunk's text: the rest of the iteration, then the
\* next slice or the end of buildIndex.
ChunkArrives ==
    /\ ld.pc = "await_chunk"
    /\ ~file.isNull
    /\ LET s == BuildResume(ld, rowIndex, totalRows, file.bytes, chunkSize)
       IN  /\ ld' = s.l
           /\ rowIndex' = s.idx
           /\ totalRows' = s.total
    /\ progress' = IF SkipsChunk(ld, Len(file.bytes)) THEN progress
                   ELSE Append(progress, ReportedPercent(ld, Len(file.bytes)))
    /\ UNCHANGED <<file, rowCache, isIndexed, gr, ret, chunkSize, phase,
                   loadsLeft, oldRows, pool, ldB, gs, recent, grid>>

\* buildIndex resumes with the failure of the chunk read: await chunk.text()
\* throws (73), buildIndex rejects and so does loadFile at line 45, before line 47.
ChunkFails ==
    /\ ld.pc = "await_chunk"
    /\ ld' = IdleLoad
    /\ phase' = "failed"
    /\ UNCHANGED <<file, rowIndex, rowCache, totalRows, isIndexed, gr, ret,
                   chunkSize, loadsLeft, oldRows, pool, ldB, gs, progress, recent, grid>>

\* loadFile resumes after buildIndex (47-48).
LoadResolve ==
    /\ ld.pc = "await_build"
    /\ isIndexed' = TRUE
    /\ ld' = IdleLoad
    /\ phase' = "ready"
    /\ UNCHANGED <<file, rowIndex, rowCache, totalRows, gr, ret, chunkSize,
                   loadsLeft, oldRows, pool, ldB, gs, progress, recent, grid>>

\* getRow that raises on a row number out of range instead of returning null.
GetRowSyncRangeError(n) ==
    IF ~isIndexed \/ file.isNull THEN [kind |-> "throw", error |-> "File not indexed yet"]
    ELSE IF n < 0 \/ n >= totalRows THEN [kind |-> "throw", error |-> "Row out of range"]
    ELSE IF CacheHas(rowCache, n) THEN [kind |-> "hit", row |-> CacheValue(rowCache, n)]
    ELSE IF n \notin DOMAIN rowIndex THEN [kind |-> "null"]
    ELSE [kind |-> "fetch"]

\* The synchronous part of getRow (149-167): what the call does before any read.
GetRowSync(n) ==
    IF ~isIndexed \/ file.isNull THEN [kind |-> "throw", error |-> "File not indexed yet"]
    ELSE IF n < 0 \/ n >= totalRows THEN [kind |-> "null"]
    ELSE IF CacheHas(rowCache, n) THEN [kind |-> "hit", row |-> CacheValue(rowCache, n)]
    ELSE IF n \notin DOMAIN rowIndex THEN [kind |-> "null"]
    ELSE [kind |-> "fetch"]

\* The cells getRow parses from the bytes an index entry names (169-171).
RowTextToEnd(bytes, entry) == Decode(Slice(bytes, entry.offset, Len(bytes)))

RowText(bytes, entry) == Decode(Slice(bytes, entry.offset, entry.offset + entry.length))

RowCells(bytes, entry) == ParseCSVLine(Trim(RowText(bytes, entry)))

\* getRow that puts an unparsed placeholder row in the cache before the read.
GetRowCachesEarly(n) ==
    LET o == GetRowSync(n)
    IN  /\ gr.pc = "idle"
        /\ CASE o.kind = "fetch" ->
                  /\ gr' = [pc |-> "await_text", rowNumber |-> n,
                            text |-> RowText(file.bytes, rowIndex[n])]
                  /\ rowCache' = CacheSet(rowCache, n,
                                          [rowNumber |-> n, cells |-> << >>], CacheSize)
                  /\ recent' = Use(recent, n, CacheSize)
                  /\ UNCHANGED ret
             [] o.kind = "hit" ->
                  /\ rowCache' = CacheTouch(rowCache, n)
                  /\ recent' = Use(recent, n, CacheSize)
                  /\ ret' = [kind |-> "row", row |-> o.row]
                  /\ UNCHANGED gr
             [] OTHER ->
                  /\ ret' = o
                  /\ UNCHANGED <<rowCache, gr, recent>>
        /\ UNCHANGED <<file, rowIndex, totalRows, isIndexed, ld, chunkSize, phase,
                       loadsLeft, oldRows, pool, ldB, progress>>

\* getRow(n) up to its return, its throw or its suspension on the byte read.
GetRow(n) ==
    LET o == GetRowSync(n)
    IN  /\ gr.pc = "idle"
        /\ CASE o.kind = "fetch" ->
                  /\ gr' = [pc |-> "await_text", rowNumber |-> n,
                            text |-> RowText(file.bytes, rowIndex[n])]
                  /\ UNCHANGED <<rowCache, ret, recent>>
             [] o.kind = "hit" ->
                  /\ rowCache' = CacheTouch(rowCache, n)
                  /\ recent' = Use(recent, n, CacheSize)
                  /\ ret' = [kind |-> "row", row |-> o.row]
                  /\ UNCHANGED gr
             [] OTHER ->
                  /\ ret' = o
                  /\ UNCHANGED <<rowCache, gr, recent>>
        /\ UNCHANGED <<file, rowIndex, totalRows, isIndexed, ld, chunkSize, phase,
                       loadsLeft, oldRows, pool, ldB, progress>>

\* getRow that caches the trimmed line as one cell and returns the parsed row.
GetRowResumeCachesLine ==
    /\ gr.pc = "await_text"
    /\ LET parsedRow == [rowNumber |-> gr.rowNumber,
                         cells |-> ParseCSVLine(Trim(gr.text))]
       IN  /\ rowCache' = CacheSet(rowCache, gr.rowNumber,
                                   [parsedRow EXCEPT !.cells = <<Trim(gr.text)>>],
                                   CacheSize)
           /\ ret' = [kind |-> "row", row |-> parsedRow]
    /\ recent' = Use(recent, gr.rowNumber, CacheSize)
    /\ gr' = IdleGet
    /\ UNCHANGED <<file, rowIndex, totalRows, isIndexed, ld, chunkSize, phase,
                   loadsLeft, oldRows, pool, ldB, gs, progress, grid>>

\* getRow that empties the cache before it caches the fetched row.
GetRowResumeClearsCache ==
    /\ gr.pc = "await_text"
    /\ LET parsedRow == [rowNumber |-> gr.rowNumber,
                         cells |-> ParseCSVLine(Trim(gr.text))]
       IN  /\ rowCache' = CacheSet(<< >>, gr.rowNumber, parsedRow, CacheSize)
           /\ ret' = [kind |-> "row", row |-> parsedRow]
    /\ recent' = Use(recent, gr.rowNumber, CacheSize)
    /\ gr' = IdleGet
    /\ UNCHANGED <<file, rowIndex, totalRows, isIndexed, ld, chunkSize, phase,
                   loadsLeft, oldRows, pool, ldB, gs, progress, grid>>

\* getRow that, on resuming, narrows the row's index entry to the trimmed text.
GetRowResumeReindexes ==
    /\ gr.pc = "await_text"
    /\ LET parsedRow == [rowNumber |-> gr.rowNumber,
                         cells |-> ParseCSVLine(Trim(gr.text))]
       IN  /\ rowCache' = CacheSet(rowCache, gr.rowNumber, parsedRow, CacheSize)
           /\ ret' = [kind |-> "row", row |-> parsedRow]
    /\ rowIndex' = MapSet(rowIndex, gr.rowNumber,
                          [offset |-> rowIndex[gr.rowNumber].offset,
                           length |-> ByteLen(Trim(gr.text))])
    /\ recent' = Use(recent, gr.rowNumber, CacheSize)
    /\ gr' = IdleGet
    /\ UNCHANGED <<file, totalRows, isIndexed, ld, chunkSize, phase,
                   loadsLeft, oldRows, pool, ldB, gs, progress, grid>>

\* getRow resumes with the text of the row's bytes (171-181).
GetRowResume ==
    /\ gr.pc = "await_text"
    /\ LET parsedRow == [rowNumber |-> gr.rowNumber,
                         cells |-> ParseCSVLine(Trim(gr.text))]
       IN  /\ rowCache' = CacheSet(rowCache, gr.rowNumber, parsedRow, CacheSize)
           /\ ret' = [kind |-> "row", row |-> parsedRow]
    /\ recent' = Use(recent, gr.rowNumber, CacheSize)
    /\ gr' = IdleGet
    /\ UNCHANGED <<file, rowIndex, totalRows, isIndexed, ld, chunkSize, phase,
                   loadsLeft, oldRows, pool, ldB, gs, progress, grid>>

\* getRow resumes with the failure of the byte read: await blob.text() throws
\* (170) and the call rejects without reaching line 171.
GetRowFails ==
    /\ gr.pc = "await_text"
    /\ ret' = [kind |-> "throw", error |-> "read failed", rowNumber |-> gr.rowNumber]
    /\ gr' = IdleGet
    /\ UNCHANGED <<file, rowIndex, rowCache, totalRows, isIndexed, ld, chunkSize,
                   phase, loadsLeft, oldRows, pool, ldB, gs, progress, recent, grid>>

\* clear() without line 273: the row count survives.
ClearKeepsCount ==
    /\ file' = NoFile
    /\ rowIndex' = EmptyIndex
    /\ rowCache' = << >>
    /\ isIndexed' = FALSE
    /\ phase' = "cleared"
    /\ oldRows' = {}
    /\ ret' = NoReturn
    /\ recent' = << >>
    /\ UNCHANGED <<totalRows, ld, gr, chunkSize, loadsLeft, pool, ldB, gs, progress, grid>>

\* clear() (269-275).
Clear ==
    /\ file' = NoFile
    /\ rowIndex' = EmptyIndex
    /\ rowCache' = << >>
    /\ totalRows' = 0
    /\ isIndexed' = FALSE
    /\ phase' = "cleared"
    /\ oldRows' = {}
    /\ ret' = NoReturn
    /\ recent' = << >>
    /\ UNCHANGED <<ld, gr, chunkSize, loadsLeft, pool, ldB, gs, progress, grid>>

getRowCount == totalRows

isReady == isIndexed

----------------------------------------------------------------------------
(* Specifications: the caller serializes loadFile, getRow and clear *)

CallLoadFile ==
    /\ Quiescent
    /\ loadsLeft > 0
    /\ \E bytes \in Pool : LoadFile(bytes)
    /\ UNCHANGED grid

CallGetRow ==
    /\ ~RowsRunning
    /\ \E n \in RowArgs : GetRow(n)
    /\ UNCHANGED <<gs, grid>>

CallClear == Quiescent /\ phase # "cleared" /\ Clear

Next ==
    \/ CallLoadFile
    \/ ChunkArrives
    \/ ChunkFails
    \/ LoadResolve
    \/ CallGetRow
    \/ GetRowResume
    \/ GetRowFails
    \/ CallClear

InitStore ==
    /\ file = NoFile
    /\ rowIndex = EmptyIndex
    /\ rowCache = << >>
    /\ totalRows = 0
    /\ isIndexed = FALSE
    /\ ld = IdleLoad
    /\ gr = IdleGet
    /\ ret = NoReturn
    /\ phase = "new"
    /\ oldRows = {}
    /\ ldB = IdleLoad
    /\ gs = IdleRows
    /\ progress = << >>
    /\ recent = << >>
    /\ grid = IdleGrid
    /\ chunkSize \in ChunkSizes

\* The lifecycle: a few sources, loaded one after another.
Init == InitStore /\ pool = "files" /\ loadsLeft = MaxLoads

Spec == Init /\ [][Next]_vars

\* Indexing: every source up to MaxLen bytes, loaded once.
InitIndex == InitStore /\ pool = "all" /\ loadsLeft = 1

SpecIndex == InitIndex /\ [][Next]_vars

----------------------------------------------------------------------------
(* Overlapping loadFile calls: a second call begun while the first awaits a chunk *)

\* The second loadFile call up to its first suspension (38-45, 55-73): the same
\* reset of the shared fields, with locals of its own.
OverlapLoadFile(bytes) ==
    LET s == LoopHead([IdleLoad EXCEPT !.pc = "start"], EmptyIndex, totalRows,
                      bytes, chunkSize)
    IN  /\ ld.pc = "await_chunk"
        /\ ldB.pc = "idle"
        /\ file' = FileOf(bytes)
        /\ rowIndex' = s.idx
        /\ rowCache' = << >>
        /\ isIndexed' = FALSE
        /\ totalRows' = s.total
        /\ ldB' = s.l
        /\ phase' = "indexing"
        /\ loadsLeft' = loadsLeft - 1
        /\ oldRows' = {rowCache[i].value : i \in 1..Len(rowCache)}
        /\ ret' = NoReturn
        /\ recent' = << >>
        /\ UNCHANGED <<ld, gr, chunkSize, pool, gs, progress, grid>>

\* buildIndex of the second call resumes with its chunk's text (73-141).
ChunkArrivesB ==
    /\ ldB.pc = "await_chunk"
    /\ ~file.isNull
    /\ LET s == BuildResume(ldB, rowIndex, totalRows, file.bytes, chunkSize)
       IN  /\ ldB' = s.l
           /\ rowIndex' = s.idx
           /\ totalRows' = s.total
    /\ UNCHANGED <<file, rowCache, isIndexed, ld, gr, ret, chunkSize, phase,
                   loadsLeft, oldRows, pool, gs, progress, recent, grid>>

\* The second loadFile call resumes after its buildIndex (47-48).
LoadResolveB ==
    /\ ldB.pc = "await_build"
    /\ isIndexed' = TRUE
    /\ ldB' = IdleLoad
    /\ phase' = "ready"
    /\ UNCHANGED <<file, rowIndex, rowCache, totalRows, ld, gr, ret, chunkSize,
                   loadsLeft, oldRows, pool, gs, progress, recent, grid>>

CallOverlapLoadFile == loadsLeft > 0 /\ \E bytes \in Pool : OverlapLoadFile(bytes)

NextConc ==
    \/ CallLoadFile
    \/ CallOverlapLoadFile
    \/ ChunkArrives
    \/ ChunkArrivesB
    \/ LoadResolve
    \/ LoadResolveB

\* Two loadFile calls on one store, the second possibly before the first resolves.
SpecConc == Init /\ [][NextConc]_vars

----------------------------------------------------------------------------
(* Free interleaving: loadFile, clear and getRow at one another's suspension points *)

\* What a resumption of buildIndex records before it fails on this.file being
\* null (76-129): with a terminator in the buffer the lines are indexed (94-112)
\* and the loop test of line 69 then throws; without one, line 82 throws first.
IndexBeforeNullFile(l, idx) ==
    LET buffer == l.buffer \o l.text
        lastNewlineIndex == LastIndexOf(buffer, NL)
    IN  IF lastNewlineIndex = -1 THEN idx
        ELSE IndexLines(Split(SubSeq(buffer, 1, lastNewlineIndex + 1), NL), 1,
                        l.currentRowStart,
                        [rowNumber |-> l.rowNumber, bufferOffset |-> l.bufferOffset,
                         idx |-> idx]).idx

\* buildIndex resumes with its chunk's text after clear() has dropped the
\* source: it rejects, and so does loadFile at line 45, before line 47.
ChunkArrivesCleared ==
    /\ ld.pc = "await_chunk"
    /\ file.isNull
    /\ rowIndex' = IndexBeforeNullFile(ld, rowIndex)
    /\ ld' = IdleLoad
    /\ UNCHANGED <<file, rowCache, totalRows, isIndexed, gr, ret, chunkSize, phase,
                   loadsLeft, oldRows, pool, ldB, gs, progress, recent, grid>>

\* The same for the second of two overlapping loadFile calls.
ChunkArrivesClearedB ==
    /\ ldB.pc = "await_chunk"
    /\ file.isNull
    /\ rowIndex' = IndexBeforeNullFile(ldB, rowIndex)
    /\ ldB' = IdleLoad
    /\ UNCHANGED <<file, rowCache, totalRows, isIndexed, gr, ret, chunkSize, phase,
                   loadsLeft, oldRows, pool, ld, gs, progress, recent, grid>>

\* loadFile called with no other loadFile in flight; a getRow may be suspended.
AnytimeLoadFile ==
    /\ ld.pc = "idle"
    /\ ldB.pc = "idle"
    /\ loadsLeft > 0
    /\ \E bytes \in Pool : LoadFile(bytes)
    /\ UNCHANGED grid

\* clear() called at any point, a suspended loadFile or getRow notwithstanding.
AnytimeClear == phase # "cleared" /\ Clear

NextInterleave ==
    \/ AnytimeLoadFile
    \/ CallOverlapLoadFile
    \/ ChunkArrives
    \/ ChunkArrivesB
    \/ ChunkArrivesCleared
    \/ ChunkArrivesClearedB
    \/ LoadResolve
    \/ LoadResolveB
    \/ CallGetRow
    \/ GetRowResume
    \/ GetRowFails
    \/ AnytimeClear

\* One store whose callers do not wait for one another.
SpecInterleave == Init /\ [][NextInterleave]_vars

----------------------------------------------------------------------------
(* getRows: the batch fetch, one awaited getRow per row number *)

AllButRows == <<file, rowIndex, rowCache, totalRows, isIndexed, ld, gr, ret,
                chunkSize, phase, loadsLeft, oldRows, pool, ldB, progress, recent,
                grid>>

\* getRows(startRow, endRow) up to its first suspension (187-191): an empty
\* range returns at once, otherwise getRow(startRow) is called and awaited.
GetRows(startRow, endRow) ==
    IF startRow <= endRow
    THEN /\ GetRow(startRow)
         /\ UNCHANGED grid
         /\ gs' = [pc |-> "await_row", startRow |-> startRow, endRow |-> endRow,
                   i |-> startRow, rows |-> << >>]
    ELSE /\ gs' = [pc |-> "returned", startRow |-> startRow, endRow |-> endRow,
                   i |-> startRow, rows |-> << >>]
         /\ UNCHANGED AllButRows

\* getRows with a loop that ends at the first row number resolving to none.
RowsResumeStopsAtNone ==
    /\ gs.pc = "await_row"
    /\ gr.pc = "idle"
    /\ IF ret.kind = "throw"
       THEN /\ gs' = [gs EXCEPT !.pc = "rejected"]
            /\ UNCHANGED AllButRows
       ELSE LET rows == IF ret.kind = "row" THEN Append(gs.rows, ret.row) ELSE gs.rows
                i == gs.i + 1
            IN  IF i <= gs.endRow /\ ret.kind = "row"
                THEN /\ GetRow(i)
                     /\ UNCHANGED grid
                     /\ gs' = [gs EXCEPT !.i = i, !.rows = rows]
                ELSE /\ gs' = [gs EXCEPT !.pc = "returned", !.i = i, !.rows = rows]
                     /\ UNCHANGED AllButRows

\* getRows resumes with the outcome of the awaited getRow (191-197): a throw
\* rejects, a row is pushed, none is skipped; then the next row number is
\* fetched or the rows are returned.
RowsResume ==
    /\ gs.pc = "await_row"
    /\ gr.pc = "idle"
    /\ IF ret.kind = "throw"
       THEN /\ gs' = [gs EXCEPT !.pc = "rejected"]
            /\ UNCHANGED AllButRows
       ELSE LET rows == IF ret.kind = "row" THEN Append(gs.rows, ret.row) ELSE gs.rows
                i == gs.i + 1
            IN  IF i <= gs.endRow
                THEN /\ GetRow(i)
                     /\ UNCHANGED grid
                     /\ gs' = [gs EXCEPT !.i = i, !.rows = rows]
                ELSE /\ gs' = [gs EXCEPT !.pc = "returned", !.i = i, !.rows = rows]
                     /\ UNCHANGED AllButRows

CallGetRows == Quiescent /\ \E startRow, endRow \in RowArgs : GetRows(startRow, endRow)

NextRows ==
    \/ CallLoadFile
    \/ ChunkArrives
    \/ ChunkFails
    \/ LoadResolve
    \/ CallGetRow
    \/ CallGetRows
    \/ RowsResume
    \/ GetRowResume
    \/ GetRowFails
    \/ CallClear

\* One source, then single and batch fetches.
InitRows == InitStore /\ pool = "files" /\ loadsLeft = 1

SpecRows == InitRows /\ [][NextRows]_vars

----------------------------------------------------------------------------
(* The cache on its own: get, set and clear with any keys, as LRUCache is used
   at lines 31, 40, 158, 179 and 272 *)

LruKeys == 0..MaxLen

LruValues(k) == {[rowNumber |-> k, cells |-> <<c>>] : c \in {"a", "b"}}

StoreFields == <<file, rowIndex, totalRows, isIndexed, ld, gr, chunkSize, phase,
                 loadsLeft, oldRows, pool, ldB, gs, progress, grid>>

\* rowCache.get(k) (158): the value of a present key, which becomes the most
\* recently used, or not-found.
LruGet(k) ==
    /\ IF CacheHas(rowCache, k)
       THEN /\ ret' = [kind |-> "row", key |-> k, row |-> CacheValue(rowCache, k)]
            /\ rowCache' = CacheTouch(rowCache, k)
            /\ recent' = Use(recent, k, CacheSize)
       ELSE /\ ret' = [kind |-> "null", key |-> k]
            /\ UNCHANGED <<rowCache, recent>>
    /\ UNCHANGED StoreFields

\* rowCache.set(k, v) (179); the call returns nothing, and the record kept of
\* it names the keys the cache lost by it.
LruSet(k, v) ==
    /\ rowCache' = CacheSet(rowCache, k, v, CacheSize)
    /\ recent' = Use(recent, k, CacheSize)
    /\ ret' = [kind |-> "set", key |-> k, value |-> v,
               evicted |-> CacheKeys(rowCache) \ CacheKeys(rowCache')]
    /\ UNCHANGED StoreFields

\* rowCache.clear() (40, 272).
LruClear ==
    /\ rowCache # << >>
    /\ rowCache' = << >>
    /\ recent' = << >>
    /\ ret' = [kind |-> "clear"]
    /\ UNCHANGED StoreFields

CallLruGet == \E k \in LruKeys : LruGet(k)

CallLruSet == \E k \in LruKeys : \E v \in LruValues(k) : LruSet(k, v)

NextCache ==
    \/ CallLruGet
    \/ CallLruSet
    \/ LruClear

InitCache == InitStore /\ pool = "files" /\ loadsLeft = 0

SpecCache == InitCache /\ [][NextCache]_vars

\* One source of one line (or the round trip example), read in a single chunk.
InitParse == InitStore /\ pool = "lines" /\ loadsLeft = 1 /\ chunkSize = CHUNK_SIZE

SpecParse == InitParse /\ [][Next]_vars

----------------------------------------------------------------------------
(* Parallium: the grid that owns the store (src/core/Parallium.ts) *)

AllButGrid == <<file, rowIndex, rowCache, totalRows, isIndexed, ld, gr, ret,
                chunkSize, phase, loadsLeft, oldRows, pool, ldB, gs, progress, recent>>

\* Parallium.loadFile up to its first suspension (1126-1131): the store's
\* loadFile is called and awaited.
GridLoadFile(bytes) ==
    /\ grid.pc = "idle"
    /\ LoadFile(bytes)
    /\ grid' = [grid EXCEPT !.pc = "await_load", !.outcome = "none"]

\* Parallium.loadFile resumes after the store's loadFile (1131-1134): a failed
\* load rejects; otherwise rows is read from the store and getRow(0) is called
\* and awaited.
GridLoadResume ==
    /\ grid.pc = "await_load"
    /\ ld.pc = "idle"
    /\ IF phase = "failed"
       THEN /\ grid' = [grid EXCEPT !.pc = "idle", !.outcome = "rejected"]
            /\ UNCHANGED AllButGrid
       ELSE /\ grid' = [grid EXCEPT !.pc = "await_row", !.rows = getRowCount]
            /\ GetRow(0)
            /\ UNCHANGED gs

\* Parallium.loadFile that leaves columns as it was (without lines 1135-1137).
GridLoadFinishKeepsColumns ==
    /\ grid.pc = "await_row"
    /\ gr.pc = "idle"
    /\ IF ret.kind = "throw"
       THEN grid' = [grid EXCEPT !.pc = "idle", !.outcome = "rejected"]
       ELSE grid' = [grid EXCEPT !.pc = "idle", !.outcome = "ok",
                                 !.usingVirtualData = TRUE]
    /\ UNCHANGED AllButGrid

\* Parallium.loadFile resumes with the outcome of getRow(0) (1134-1141): a
\* throw rejects; a row sets columns to its number of cells.
GridLoadFinish ==
    /\ grid.pc = "await_row"
    /\ gr.pc = "idle"
    /\ IF ret.kind = "throw"
       THEN grid' = [grid EXCEPT !.pc = "idle", !.outcome = "rejected"]
       ELSE grid' = [grid EXCEPT !.pc = "idle", !.outcome = "ok",
                                 !.usingVirtualData = TRUE,
                                 !.columns = IF ret.kind = "row"
                                             THEN Len(ret.row.cells) ELSE @]
    /\ UNCHANGED AllButGrid

GridCallLoadFile ==
    /\ Quiescent
    /\ loadsLeft > 0
    /\ \E bytes \in Pool : GridLoadFile(bytes)

\* A row read made for the grid while no Parallium.loadFile is in flight.
GridGetRow == grid.pc = "idle" /\ CallGetRow

NextGrid ==
    \/ GridCallLoadFile
    \/ ChunkArrives
    \/ ChunkFails
    \/ LoadResolve
    \/ GridLoadResume
    \/ GetRowResume
    \/ GetRowFails
    \/ GridLoadFinish
    \/ GridGetRow

InitGrid == InitStore /\ pool = "grid" /\ loadsLeft = MaxLoads

\* The grid loading one source after another, reading rows in between.
SpecGrid == InitGrid /\ [][NextGrid]_vars

----------------------------------------------------------------------------
(* Selection and editing in Parallium (src/core/Parallium.ts); each handler is
   a function of the grid's fields, so that the listeners of one event compose *)

\* The rows and columns passed to the constructor (options.rows, options.columns).
OptionRows == 3
OptionColumns == 3

Max(a, b) == IF a > b THEN a ELSE b

\* The last row a frame draws, less the first: the height of the canvas in rows.
ViewportRows == 1

\* Math.floor(canvas.height / devicePixelRatio / cellHeight) of PageUp and
\* PageDown, for a canvas of ViewportRows whole rows.
PageRows == ViewportRows

Keys == {"ArrowUp", "ArrowDown", "ArrowLeft", "ArrowRight", "PageUp", "PageDown",
         "Home", "End", "CtrlHome", "CtrlEnd", "Enter", "Escape", "a"}

\* startEditing (784-812): the cell is marked as edited and the input shown.
StartEditingOf(g, row, col) ==
    [g EXCEPT !.editing = CellOf(row, col), !.inputShown = TRUE]

\* stopEditing (817-836): the input is hidden and the edited cell forgotten.
StopEditingOf(g) == [g EXCEPT !.editing = NoCell, !.inputShown = FALSE]

\* getCellFromMouseEvent (743-760) for a pointer over the cell position (row, col).
CellFromMouse(g, row, col) ==
    IF col >= 0 /\ col < g.columns /\ row >= 0 /\ row < g.rows
    THEN CellOf(row, col)
    ELSE NoCell

\* handleClick (765-771).
HandleClickOf(g, row, col) ==
    IF CellFromMouse(g, row, col).isNull THEN g
    ELSE [g EXCEPT !.selected = CellOf(row, col)]

\* handleDoubleClick (776-781).
HandleDoubleClickOf(g, row, col) ==
    IF CellFromMouse(g, row, col).isNull THEN g
    ELSE StartEditingOf(g, row, col)

\* handleEditKeydown (848-856), the keydown listener of the edit input.
HandleEditKeydownOf(g, key) ==
    IF key \in {"Enter", "Escape"} THEN StopEditingOf(g) ELSE g

\* The cell the navigation keys of handleKeydown move the selection to (913-967).
MovedCell(g, key) ==
    LET row == g.selected.row
        col == g.selected.col
    IN  CASE key = "ArrowUp" -> CellOf(Max(0, row - 1), col)
          [] key = "ArrowDown" -> CellOf(Min(g.rows - 1, row + 1), col)
          [] key = "ArrowLeft" -> CellOf(row, Max(0, col - 1))
          [] key = "ArrowRight" -> CellOf(row, Min(g.columns - 1, col + 1))
          [] key = "PageUp" -> CellOf(Max(0, row - PageRows), col)
          [] key = "PageDown" -> CellOf(Min(g.rows - 1, row + PageRows), col)
          [] key = "Home" -> CellOf(row, 0)
          [] key = "CtrlHome" -> CellOf(0, 0)
          [] key = "End" -> CellOf(row, g.columns - 1)
          [] key = "CtrlEnd" -> CellOf(g.rows - 1, g.columns - 1)
          [] OTHER -> g.selected

\* handleKeydown (897-989), the keydown listener of the window.
HandleKeydownOf(g, key) ==
    IF ~g.editing.isNull THEN g
    ELSE IF g.selected.isNull THEN g
    ELSE IF key \in {"Enter", "a"} THEN StartEditingOf(g, g.selected.row, g.selected.col)
    ELSE [g EXCEPT !.selected = MovedCell(g, key)]

\* A click on the canvas; an edit input that had the focus loses it first
\* (handleEditBlur, 841-843).
HandleClick ==
    /\ \E row \in 0..OptionRows, col \in 0..OptionColumns :
           grid' = [HandleClickOf(IF grid.inputShown THEN StopEditingOf(grid) ELSE grid,
                                  row, col)
                    EXCEPT !.event = [target |-> "canvas", key |-> "click"]]
    /\ UNCHANGED AllButGrid

\* A double click on the canvas, after the click that precedes it.
HandleDoubleClick ==
    /\ grid.event = [target |-> "canvas", key |-> "click"]
    /\ \E row \in 0..OptionRows, col \in 0..OptionColumns :
           grid' = [HandleDoubleClickOf(grid, row, col)
                    EXCEPT !.event = [target |-> "canvas", key |-> "dblclick"]]
    /\ UNCHANGED AllButGrid

\* A key pressed while the edit input is hidden: the window's listener runs (668).
KeydownOnWindow ==
    /\ ~grid.inputShown
    /\ \E key \in Keys :
           grid' = [HandleKeydownOf(grid, key)
                    EXCEPT !.event = [target |-> "window", key |-> key]]
    /\ UNCHANGED AllButGrid

\* A key pressed in the focused edit input: the input's listener runs (734-737),
\* then the event bubbles to the window's listener (668).
KeydownOnInput ==
    /\ grid.inputShown
    /\ \E key \in Keys :
           grid' = [HandleKeydownOf(HandleEditKeydownOf(grid, key), key)
                    EXCEPT !.event = [target |-> "input", key |-> key]]
    /\ UNCHANGED AllButGrid

NextSelect ==
    \/ HandleClick
    \/ HandleDoubleClick
    \/ KeydownOnWindow
    \/ KeydownOnInput
    \/ GridCallLoadFile
    \/ ChunkArrives
    \/ LoadResolve
    \/ GridLoadResume
    \/ GetRowResume
    \/ GridLoadFinish

\* A grid of OptionRows by OptionColumns cells, and one file to load.
InitSelect ==
    /\ file = NoFile
    /\ rowIndex = EmptyIndex
    /\ rowCache = << >>
    /\ totalRows = 0
    /\ isIndexed = FALSE
    /\ ld = IdleLoad
    /\ gr = IdleGet
    /\ ret = NoReturn
    /\ phase = "new"
    /\ oldRows = {}
    /\ ldB = IdleLoad
    /\ gs = IdleRows
    /\ progress = << >>
    /\ recent = << >>
    /\ grid = [IdleGrid EXCEPT !.rows = OptionRows, !.columns = OptionColumns]
    /\ chunkSize = CHUNK_SIZE
    /\ pool = "files"
    /\ loadsLeft = 1

\* The user selecting, navigating and editing cells while a file is loaded.
SpecSelect == InitSelect /\ [][NextSelect]_vars

----------------------------------------------------------------------------
(* The render loop of Parallium (src/core/Parallium.ts) *)

\* renderVisibleCells calls getRow(row) and awaits it (1089), last being the
\* last visible row of the frame.  A throw of getRow rejects renderVisibleCells
\* and render, which then never reaches requestAnimationFrame (1066).
RenderGetRow(row, last) ==
    /\ grid.pc # "await_row"
    /\ GetRow(row)
    /\ UNCHANGED gs
    /\ grid' = [grid EXCEPT !.frame = CASE GetRowSync(row).kind = "throw" -> "stopped"
                                        [] GetRowSync(row).kind = "fetch" -> "await_row"
                                        [] OTHER -> "row_done",
                            !.frameRow = row,
                            !.frameEnd = last]

\* render() up to its first suspension (1019-1064, 1087-1089), unscrolled: the
\* visible rows are 0 .. min(ViewportRows, rows - 1), read from the store once
\* a file has been loaded.  A frame is a task of its own: it does not start
\* between the end of buildIndex and the continuation of the loadFile awaiting
\* it, which is a pending microtask.
RenderVisibleCells ==
    LET last == Min(ViewportRows, grid.rows - 1)
    IN  /\ ld.pc # "await_build"
        /\ IF grid.usingVirtualData /\ 0 <= last
           THEN RenderGetRow(0, last)
           ELSE /\ grid' = [grid EXCEPT !.frame = "await_cells"]
                /\ UNCHANGED AllButGrid

\* init() starts the loop with a first call of render() (line 656).
GridInit == grid.frame = "none" /\ RenderVisibleCells

\* The callback of requestAnimationFrame runs render() (1066).
RenderFrame == grid.frame = "scheduled" /\ RenderVisibleCells

\* renderVisibleCells resumes with the outcome of the awaited getRow (1089-1090).
RenderRowResume ==
    /\ grid.frame = "await_row"
    /\ gr.pc = "idle"
    /\ grid' = [grid EXCEPT !.frame = IF ret.kind = "throw" THEN "stopped"
                                      ELSE "row_done"]
    /\ UNCHANGED AllButGrid

\* The for loop of renderVisibleCells goes on to the next visible row, or ends
\* and renderVisibleCells returns to the awaiting render (1088, 1111-1120).
RenderNextRow ==
    /\ grid.frame = "row_done"
    /\ IF grid.frameRow + 1 <= grid.frameEnd
       THEN RenderGetRow(grid.frameRow + 1, grid.frameEnd)
       ELSE /\ grid' = [grid EXCEPT !.frame = "await_cells"]
            /\ UNCHANGED AllButGrid

\* render resumes after renderVisibleCells and schedules the next frame (1066).
RenderSchedule ==
    /\ grid.frame = "await_cells"
    /\ grid' = [grid EXCEPT !.frame = "scheduled"]
    /\ UNCHANGED AllButGrid

\* Parallium.loadFile called, and resumed, between the row reads of the frames.
RenderCallLoadFile == grid.frame # "await_row" /\ GridCallLoadFile

RenderLoadResume == grid.frame # "await_row" /\ GridLoadResume

NextRender ==
    \/ GridInit
    \/ RenderFrame
    \/ RenderRowResume
    \/ RenderNextRow
    \/ RenderSchedule
    \/ RenderCallLoadFile
    \/ ChunkArrives
    \/ LoadResolve
    \/ RenderLoadResume
    \/ GetRowResume
    \/ GridLoadFinish

\* Every awaited chunk read is answered.  ChunkArrives is the one step out of
\* ld.pc = "await_chunk" here and is enabled throughout it, so this is weak
\* fairness of ChunkArrives.
ChunksArrive == []<>(ld.pc # "await_chunk")

\* The grid rendering frame after frame while files are loaded; every read of
\* the source succeeds, and every step but the user's loadFile is taken in time.
SpecRender ==
    /\ InitGrid
    /\ [][NextRender]_vars
    /\ WF_vars(GridInit)
    /\ WF_vars(RenderFrame)
    /\ WF_vars(RenderRowResume)
    /\ WF_vars(RenderNextRow)
    /\ WF_vars(RenderSchedule)
    /\ ChunksArrive
    /\ WF_vars(LoadResolve)
    /\ WF_vars(RenderLoadResume)
    /\ WF_vars(GetRowResume)
    /\ WF_vars(GridLoadFinish)

\* One source that ends in a terminator, every chunk size.
InitTerminated == InitStore /\ pool = "terminated" /\ loadsLeft = 1

SpecTerminated == InitTerminated /\ [][Next]_vars

----------------------------------------------------------------------------
(* What the specification says of a source, read off the source itself *)

\* loadFile has succeeded and nothing has changed the store since.
Loaded == phase = "ready"

NonBlank(line) == Trim(line) # << >>

\* The non-blank lines of a source, in order.
NonBlankLines(bytes) == SelectSeq(Split(Decode(bytes), NL), NonBlank)

\* Byte offset of the first byte after the last terminator (0 without one).
LastLineStart(bytes) == LastIndexOf(bytes, NL) + 1

\* The bytes after the last terminator.
LastLine(bytes) == SubSeq(bytes, LastLineStart(bytes) + 1, Len(bytes))

\* Byte offset at which the blank tail of a source begins: just after the
\* terminator of its last non-blank line (its size if that line has none,
\* 0 if every line is blank).
BlankTailStart(bytes) ==
    LET inked == {i \in 1..Len(bytes) : ~IsSpace(bytes[i])}
    IN  IF inked = {} THEN 0
        ELSE LET k == CHOOSE i \in inked : \A j \in inked : j <= i
                 ends == {i \in (k + 1)..Len(bytes) : bytes[i] = NL}
             IN  IF ends = {} THEN Len(bytes)
                 ELSE CHOOSE i \in ends : \A j \in ends : i <= j

\* Offset of the final line of a source that ends in two terminators with
\* nothing but blanks between them; -1 if the source does not end so.
BlankFinalLineStart(bytes) ==
    IF Len(bytes) >= 2 /\ bytes[Len(bytes)] = NL
    THEN LET body == SubSeq(bytes, 1, Len(bytes) - 1)
         IN  IF LastIndexOf(body, NL) >= 0 /\ Trim(LastLine(body)) = << >>
             THEN LastLineStart(body)
             ELSE -1
    ELSE -1

----------------------------------------------------------------------------
(* Claims *)

\* C1: chunk-invariance.  Once a source is loaded, the row count, every index
\* entry and the cells of every row are those that indexing the same source
\* yields with every other chunk size.
C1_ChunkInvariance ==
    Loaded =>
        \A cs \in ChunkSizes :
            LET other == IndexOf(file.bytes, cs)
            IN  /\ totalRows = other.total
                /\ rowIndex = other.idx
                /\ \A n \in DOMAIN rowIndex :
                       RowCells(file.bytes, rowIndex[n]) = RowCells(file.bytes, other.idx[n])

\* C2: index completeness.  Once a source with R non-blank lines is loaded, the
\* index holds exactly the rows 0..R-1, getRowCount() is R, and the bytes of
\* row i hold the content of the i-th non-blank line.
C2_IndexCompleteness ==
    Loaded =>
        LET want == NonBlankLines(file.bytes)
        IN  /\ getRowCount = Len(want)
            /\ DOMAIN rowIndex = 0..(Len(want) - 1)
            /\ \A i \in 0..(Len(want) - 1) :
                   i \in DOMAIN rowIndex =>
                       Trim(RowText(file.bytes, rowIndex[i])) = Trim(want[i + 1])

\* C3: a final line without terminator that is non-empty after trimming is
\* indexed exactly once, as the last row, from its first byte to the last byte
\* of the source; a one-line source without terminator has one row.
C3_UnterminatedLastLine ==
    (Loaded /\ Trim(Decode(LastLine(file.bytes))) # << >>) =>
        LET start == LastLineStart(file.bytes)
        IN  /\ totalRows >= 1
            /\ (totalRows - 1) \in DOMAIN rowIndex
            /\ rowIndex[totalRows - 1] =
                   [offset |-> start, length |-> Len(file.bytes) - start]
            /\ Cardinality({r \in DOMAIN rowIndex : rowIndex[r].offset >= start}) = 1
            /\ (start = 0 => totalRows = 1)

\* C4: a blank trailing line gets no row.  If what follows the last terminator
\* is empty or whitespace, no index entry starts there; and if the source ends
\* with a blank final line, no index entry starts at that line.
C4_BlankTrailerNotIndexed ==
    Loaded =>
        /\ (LastIndexOf(file.bytes, NL) >= 0 /\ Trim(LastLine(file.bytes)) = << >>) =>
               \A r \in DOMAIN rowIndex :
                   rowIndex[r].offset < LastLineStart(file.bytes)
        /\ BlankFinalLineStart(file.bytes) >= 0 =>
               \A r \in DOMAIN rowIndex :
                   rowIndex[r].offset # BlankFinalLineStart(file.bytes)

\* C5: once a source is loaded the index keys are 0..totalRows-1, the offsets
\* increase strictly, and the ranges, in row order, tile the source from byte 0
\* to an end that lies in the blank tail (or is the size of the source).
C5_IndexTilesSource ==
    Loaded =>
        /\ DOMAIN rowIndex = 0..(totalRows - 1)
        /\ \A r \in DOMAIN rowIndex :
               /\ r = 0 => rowIndex[r].offset = 0
               /\ (r + 1) \in DOMAIN rowIndex =>
                      /\ rowIndex[r].offset < rowIndex[r + 1].offset
                      /\ rowIndex[r].offset + rowIndex[r].length = rowIndex[r + 1].offset
               /\ r = totalRows - 1 =>
                      /\ BlankTailStart(file.bytes)
                             <= rowIndex[r].offset + rowIndex[r].length
                      /\ rowIndex[r].offset + rowIndex[r].length <= Len(file.bytes)
        /\ totalRows = 0 => BlankTailStart(file.bytes) = 0


\* C6: pre-ready guard.  Before any loadFile, while a loadFile is indexing and
\* after clear(), getRow(n) fails with the not-indexed error for every n.
C6_PreReadyGuard ==
    (phase \in {"new", "indexing", "cleared"}) =>
        \A n \in RowArgs :
            GetRowSync(n) = [kind |-> "throw", error |-> "File not indexed yet"]

\* A getRow call has thrown while a store that was ready, with rows cached, is
\* indexing its next source.
C6_Witness ==
    /\ phase = "indexing"
    /\ ld.pc = "await_chunk"
    /\ oldRows # {}
    /\ ret = [kind |-> "throw", error |-> "File not indexed yet"]

\* C7: out of range.  On a loaded store getRow(n) returns none, without an
\* error, for every n < 0 and every n >= totalRows.
C7_OutOfRangeIsNone ==
    Loaded =>
        \A n \in RowArgs :
            (n < 0 \/ n >= totalRows) => GetRowSync(n) = [kind |-> "null"]

\* getRow has returned none on a loaded store that has rows, and totalRows is
\* among the row numbers asked for.
C7_Witness ==
    /\ Loaded
    /\ totalRows > 0
    /\ totalRows \in RowArgs
    /\ ret = [kind |-> "null"]

\* C8: lifecycle of isReady().  It is false in the initial state and during the
\* whole of every loadFile, whose start empties the index and the cache; it is
\* true only when no load is in flight, the load has succeeded and totalRows is
\* the row count of the indexing pass; and it is true after every load that
\* succeeded.
C8_ReadyLifecycle ==
    /\ phase = "new" => ~isReady
    /\ ld.pc # "idle" => (~isReady /\ rowCache = << >>)
    /\ ld.pc = "await_chunk" => DOMAIN rowIndex = 0..(ld.rowNumber - 1)
    /\ isReady =>
           /\ ld.pc = "idle"
           /\ phase = "ready"
           /\ totalRows = IndexOf(file.bytes, chunkSize).total
    /\ Loaded => isReady

\* A store that was ready with rows cached has completed another load of a
\* source with rows.
C8_Witness ==
    /\ Loaded
    /\ isReady
    /\ oldRows # {}
    /\ totalRows > 0

\* C9: getRowCount() is 0 before the first loadFile and while any loadFile is
\* still indexing, and is the row count of the loaded source afterwards.
C9_RowCountZeroUntilIndexed ==
    /\ (phase = "new" \/ ld.pc = "await_chunk") => getRowCount = 0
    /\ Loaded => getRowCount = IndexOf(file.bytes, chunkSize).total

\* The row getRow(n) yields on a store freshly loaded with the current source.
FreshRow(n) ==
    [rowNumber |-> n,
     cells |-> RowCells(file.bytes, IndexOf(file.bytes, chunkSize).idx[n])]

\* C10: serialized reload.  Once a load has resolved, the row count, the index,
\* every cached row and every row getRow returns are those of the current
\* source alone.
C10_ReloadDiscardsOldState ==
    Loaded =>
        LET fresh == IndexOf(file.bytes, chunkSize)
        IN  /\ getRowCount = fresh.total
            /\ rowIndex = fresh.idx
            /\ \A i \in 1..Len(rowCache) :
                   /\ rowCache[i].key \in DOMAIN fresh.idx
                   /\ rowCache[i].value = FreshRow(rowCache[i].key)
            /\ ret.kind = "row" =>
                   /\ ret.row.rowNumber \in DOMAIN fresh.idx
                   /\ ret.row = FreshRow(ret.row.rowNumber)
            /\ \A n \in RowArgs :
                   /\ GetRowSync(n).kind = "hit" => GetRowSync(n).row = FreshRow(n)
                   /\ GetRowSync(n).kind = "null" <=> n \notin DOMAIN fresh.idx

\* After a reload getRow has returned row n of the new source, and the old
\* source's row n, with other cells, was in the cache when the reload began.
C10_Witness ==
    /\ Loaded
    /\ ret.kind = "row"
    /\ \E o \in oldRows :
           o.rowNumber = ret.row.rowNumber /\ o.cells # ret.row.cells


\* C11: a failed load.  When a chunk read fails the load ends without another
\* read, and the store is as after clear(): isReady() is false, getRow fails
\* with the not-indexed error for every n, and getRowCount() is 0.
C11_FailedLoadLeavesUnindexed ==
    phase = "failed" =>
        /\ ld.pc = "idle"
        /\ ~isReady
        /\ \A n \in RowArgs :
               GetRowSync(n) = [kind |-> "throw", error |-> "File not indexed yet"]
        /\ getRowCount = 0

\* C12: a failed row read.  The step in which the byte read of getRow(n) fails
\* changes nothing of the store (source, index, totalRows, ready flag, cache);
\* and after it the store is still ready, row n is not cached, and getRow(n)
\* goes to the source again for the row of the current source.
C12_FailedReadLeavesStore ==
    /\ [][(gr.pc = "await_text" /\ ret'.kind = "throw") =>
              /\ ret' = [kind |-> "throw", error |-> "read failed",
                         rowNumber |-> gr.rowNumber]
              /\ UNCHANGED <<file, rowIndex, totalRows, isIndexed, rowCache>>]_vars
    /\ [](ret.kind = "throw" /\ ret.error = "read failed" =>
              /\ isReady
              /\ ~CacheHas(rowCache, ret.rowNumber)
              /\ GetRowSync(ret.rowNumber) = [kind |-> "fetch"]
              /\ \A i \in 1..Len(rowCache) :
                     rowCache[i].value = FreshRow(rowCache[i].key))

\* The read of a row has failed while another row was cached.
C12_Witness ==
    /\ ret.kind = "throw"
    /\ ret.error = "read failed"
    /\ rowCache # << >>
    /\ gr.pc = "idle"


\* C13: overlapping loads.  Once two loadFile calls, the second begun while the
\* first was in flight, have both settled, the index and totalRows are those of
\* indexing one source alone.
C13_OverlapYieldsOneIndex ==
    (ld.pc = "idle" /\ ldB.pc = "idle" /\ loadsLeft = 0 /\ Loaded) =>
        \E bytes \in Pool :
            IndexOf(bytes, chunkSize) = [idx |-> rowIndex, total |-> totalRows]


RowsOfRange(startRow, endRow) ==
    LET lo == IF startRow < 0 THEN 0 ELSE startRow
        hi == Min(endRow, totalRows - 1)
    IN  [k \in 1..(hi - lo + 1) |-> FreshRow(lo + k - 1)]

\* C15: batch fetch.  getRows(startRow, endRow) on a ready store returns exactly
\* the rows numbered in both [startRow, endRow] and [0, totalRows), each once and
\* in ascending order; row numbers out of range are skipped, an empty range
\* gives the empty sequence, and the call rejects only when a byte read fails.
C15_GetRowsRange ==
    [][(gs' # gs /\ isReady) =>
           /\ gs'.pc = "returned" =>
                  /\ gs'.rows = RowsOfRange(gs'.startRow, gs'.endRow)
                  /\ UNCHANGED <<file, rowIndex, totalRows, chunkSize>>
           /\ (gs'.pc = "returned" /\ gs'.startRow > gs'.endRow) => gs'.rows = << >>
           /\ gs'.pc = "rejected" => (ret.kind = "throw" /\ ret.error = "read failed")
      ]_vars

\* A batch over every row argument has returned at least two rows of a ready
\* store, skipping the row numbers below 0 and past the last row.
C15_Witness ==
    /\ gs.pc = "returned"
    /\ gs.startRow = -1
    /\ gs.endRow = MaxLen + 1
    /\ Len(gs.rows) >= 2
    /\ Len(gs.rows) < gs.endRow - gs.startRow + 1
    /\ isReady


\* C16: progress.  During one loadFile the values passed to onProgress are
\* non-decreasing, each lies in [0, 100], and once the load of a non-empty
\* source has succeeded the last value passed is 100.
C16_ProgressMonotone ==
    /\ \A i \in 1..Len(progress) :
           /\ progress[i].den > 0
           /\ 0 <= progress[i].num
           /\ progress[i].num <= 100 * progress[i].den
    /\ \A i \in 1..(Len(progress) - 1) :
           progress[i].num * progress[i + 1].den <= progress[i + 1].num * progress[i].den
    /\ (Loaded /\ file.bytes # << >>) =>
           /\ progress # << >>
           /\ progress[Len(progress)].num = 100 * progress[Len(progress)].den

\* A three-byte source read one byte at a time has loaded with two reports, the
\* first below 100: one iteration ended at the continue without a report.
C16_Witness ==
    /\ Loaded
    /\ chunkSize = 1
    /\ Len(file.bytes) = MaxLen
    /\ Len(progress) = 2
    /\ progress[1].num < 100 * progress[1].den


\* C17: cache bound.  After any sequence of get, set and clear on a cache of
\* capacity CacheSize the cache holds at most CacheSize entries, one per key,
\* and the most recently used distinct keys (up to CacheSize of them, counted
\* since the last clear) are all present.
C17_CacheBound ==
    /\ Len(rowCache) <= CacheSize
    /\ \A i, j \in 1..Len(rowCache) : rowCache[i].key = rowCache[j].key => i = j
    /\ \A i \in 1..Len(recent) : CacheHas(rowCache, recent[i])

\* A set on a full cache has just evicted a key, and the cache is full again.
C17_Witness ==
    /\ Len(rowCache) = CacheSize
    /\ Len(recent) = CacheSize
    /\ ret.kind = "set"
    /\ ret.evicted # {}
    /\ recent[Len(recent)] = ret.key

\* The values kept under keys other than k are the same before and after.
OthersKept(k) ==
    \A x \in CacheKeys(rowCache') \ {k} :
        CacheHas(rowCache, x) /\ CacheValue(rowCache', x) = CacheValue(rowCache, x)

\* C18: cache eviction.  set of an absent key on a full cache evicts exactly the
\* least recently used key, where a get that hits and a set both count as a
\* use; set of a present key overwrites, counts as a use and evicts nothing;
\* get of an absent key returns not-found and changes nothing.
C18_EvictsLeastRecent ==
    [][/\ (ret'.kind = "set" /\ ~CacheHas(rowCache, ret'.key)
              /\ Len(rowCache) = CacheSize) =>
              /\ CacheKeys(rowCache') =
                     (CacheKeys(rowCache) \ {recent[1]}) \cup {ret'.key}
              /\ Len(rowCache') = CacheSize
              /\ CacheValue(rowCache', ret'.key) = ret'.value
              /\ OthersKept(ret'.key)
       /\ (ret'.kind = "set" /\ ~CacheHas(rowCache, ret'.key)
              /\ Len(rowCache) < CacheSize) =>
              /\ CacheKeys(rowCache') = CacheKeys(rowCache) \cup {ret'.key}
              /\ CacheValue(rowCache', ret'.key) = ret'.value
              /\ OthersKept(ret'.key)
       /\ (ret'.kind = "set" /\ CacheHas(rowCache, ret'.key)) =>
              /\ CacheKeys(rowCache') = CacheKeys(rowCache)
              /\ Len(rowCache') = Len(rowCache)
              /\ CacheValue(rowCache', ret'.key) = ret'.value
              /\ OthersKept(ret'.key)
              /\ recent'[Len(recent')] = ret'.key
       /\ ret'.kind = "row" =>
              /\ CacheHas(rowCache, ret'.key)
              /\ ret'.row = CacheValue(rowCache, ret'.key)
              /\ CacheKeys(rowCache') = CacheKeys(rowCache)
              /\ OthersKept(MaxLen + 1)
              /\ recent'[Len(recent')] = ret'.key
       /\ ret'.kind = "null" =>
              /\ ~CacheHas(rowCache, ret'.key)
              /\ UNCHANGED <<rowCache, recent>>
      ]_vars

\* A set of key 2 on a full cache holding keys 0 and 1 has just evicted key 1
\* and kept key 0, the more recently used of the two.
C18_Witness ==
    /\ ret.kind = "set"
    /\ ret.key = 2
    /\ ret.evicted = {1}
    /\ CacheKeys(rowCache) = {0, 2}
    /\ recent = <<0, 2>>


----------------------------------------------------------------------------
(* Fields of a line as the specification describes them (4.2.2) *)

\* Line n of the source, without its terminator.
LineOf(n) == Split(Decode(file.bytes), NL)[n + 1]

\* A comma is a separator when an even number of quotes precedes it.
IsSeparator(line, i) ==
    line[i] = COMMA /\ Cardinality({j \in 1..(i - 1) : line[j] = QUOTE}) % 2 = 0

Separators(line) == {i \in 1..Len(line) : IsSeparator(line, i)}

FieldCount(line) == Cardinality(Separators(line)) + 1

\* The position of the j-th separator; 0 before the first, Len + 1 after the last.
SeparatorAt(line, j) ==
    IF j = 0 THEN 0
    ELSE IF j > Cardinality(Separators(line)) THEN Len(line) + 1
    ELSE CHOOSE i \in Separators(line) :
             Cardinality({x \in Separators(line) : x < i}) = j - 1

\* The text of field j, separators excluded, surrounding whitespace trimmed.
Field(line, j) ==
    Trim(SubSeq(line, SeparatorAt(line, j - 1) + 1, SeparatorAt(line, j) - 1))

IsQuoted(f) == Len(f) >= 2 /\ f[1] = QUOTE /\ f[Len(f)] = QUOTE

Inner(f) == SubSeq(f, 2, Len(f) - 1)

\* Inside the wrapping quotes every quote is one of a pair.
RECURSIVE PairedQuotes(_)
PairedQuotes(text) ==
    IF text = << >> THEN TRUE
    ELSE IF Head(text) = QUOTE
         THEN Len(text) >= 2 /\ text[2] = QUOTE /\ PairedQuotes(SubSeq(text, 3, Len(text)))
    ELSE PairedQuotes(Tail(text))

RECURSIVE Unescape(_)
Unescape(text) ==
    IF text = << >> THEN << >>
    ELSE IF Head(text) = QUOTE
         THEN <<QUOTE>> \o Unescape(SubSeq(text, 3, Len(text)))
    ELSE <<Head(text)>> \o Unescape(Tail(text))

\* A field is a quoted field with paired inner quotes, or holds no quote at all.
WellFormedField(f) ==
    IF IsQuoted(f) THEN PairedQuotes(Inner(f))
    ELSE \A i \in 1..Len(f) : f[i] # QUOTE

WellFormed(line) == \A j \in 1..FieldCount(line) : WellFormedField(Field(line, j))

\* The value of a field: what its quotes wrap, unescaped, or the trimmed text.
FieldValue(f) == IF IsQuoted(f) THEN Unescape(Inner(f)) ELSE f

FieldValues(line) == [j \in 1..FieldCount(line) |-> FieldValue(Field(line, j))]

\* C19: quotes.  For every row getRow returns, the commas outside quotes
\* separate its fields; when the line is well formed each cell is the value of
\* its field (wrapping quotes dropped, a comma inside quotes kept, two quotes
\* inside quotes read as one), compared here up to surrounding whitespace.  The
\* round trip example has two rows, [a, b, c] and [1, "x,y", 3].
C19_QuotedFields ==
    /\ (Loaded /\ ret.kind = "row") =>
           LET line == LineOf(ret.row.rowNumber)
               cells == ret.row.cells
           IN  /\ Len(cells) = FieldCount(line)
               /\ WellFormed(line) =>
                      \A j \in 1..Len(cells) : cells[j] = Trim(FieldValues(line)[j])
    /\ (Loaded /\ file.bytes = FileRoundTrip) =>
           /\ getRowCount = 2
           /\ FreshRow(0).cells = <<<<"a">>, <<"b">>, <<"c">>>>
           /\ FreshRow(1).cells = <<<<"1">>, <<"x", COMMA, "y">>, <<"3">>>>
           /\ ret.kind = "row" => ret.row = FreshRow(ret.row.rowNumber)

\* getRow has returned the one cell of a quoted field that holds an escaped
\* quote followed by a comma.
C19_Witness ==
    /\ Loaded
    /\ file.bytes = <<QUOTE, QUOTE, QUOTE, COMMA, QUOTE, NL>>
    /\ ret.kind = "row"
    /\ ret.row.cells = <<<<QUOTE, COMMA>>>>

\* C20: trimming.  For every row getRow returns from a well formed line, only
\* the whitespace outside the quotes of a field is trimmed: each cell is the
\* value of its field, whitespace inside the quotes included.
C20_QuotedWhitespaceKept ==
    (Loaded /\ ret.kind = "row" /\ WellFormed(LineOf(ret.row.rowNumber))) =>
        ret.row.cells = FieldValues(LineOf(ret.row.rowNumber))


\* C21: idempotent parse.  On a ready store every row getRow returns for n,
\* by a cache hit or by a fetch, has the cells parsed from the bytes the index
\* names for n, and so have the cached entry of n and every row of n that a
\* getRows call collected earlier: the same n always gives the same cells.
C21_IdempotentParse ==
    isReady =>
        /\ \A i \in 1..Len(rowCache) :
               rowCache[i].value.cells = RowCells(file.bytes, rowIndex[rowCache[i].key])
        /\ ret.kind = "row" =>
               /\ ret.row.cells = RowCells(file.bytes, rowIndex[ret.row.rowNumber])
               /\ \A i \in 1..Len(gs.rows) :
                      gs.rows[i].rowNumber = ret.row.rowNumber =>
                          gs.rows[i].cells = ret.row.cells

\* getRows(0, ..) has returned one row more than the cache holds, which evicted
\* row 0, and a later getRow(0) has fetched row 0 again: both copies are equal.
C21_Witness ==
    /\ isReady
    /\ gs.pc = "returned"
    /\ gs.startRow = 0
    /\ Len(gs.rows) = CacheSize + 1
    /\ ret.kind = "row"
    /\ ret.row.rowNumber = 0
    /\ ret.row = gs.rows[1]
    /\ Len(ret.row.cells) > 1


\* The keys a step removes from the cache.
LostKeys == CacheKeys(rowCache) \ CacheKeys(rowCache')

\* C22: getRow's effect on other entries.  A step of getRow (any step that is
\* not the start of a loadFile or a clear) keeps every other cached row with
\* its cells; it removes an entry only when a fetch completes on a full cache,
\* and then exactly one, the least recently used; it never empties the cache.
C22_GetRowKeepsOthers ==
    [][phase' = phase =>
           /\ \A k \in CacheKeys(rowCache) \cap CacheKeys(rowCache') :
                  CacheValue(rowCache', k) = CacheValue(rowCache, k)
           /\ LostKeys # {} =>
                  /\ gr.pc = "await_text"
                  /\ gr'.pc = "idle"
                  /\ ~CacheHas(rowCache, gr.rowNumber)
                  /\ Len(rowCache) = CacheSize
                  /\ LostKeys = {recent[1]}
                  /\ CacheKeys(rowCache') =
                         (CacheKeys(rowCache) \ LostKeys) \cup {gr.rowNumber}
           /\ rowCache # << >> => rowCache' # << >>
      ]_vars

\* getRows has returned one row more than the cache holds and the cache is
\* full: the fetches evicted, one entry at a time, and kept the latest rows.
C22_Witness ==
    /\ isReady
    /\ gs.pc = "returned"
    /\ Len(gs.rows) = CacheSize + 1
    /\ Len(rowCache) = CacheSize
    /\ ret.kind = "row"
    /\ ret.row = gs.rows[Len(gs.rows)]
    /\ \A i \in 1..CacheSize : rowCache[i].value = gs.rows[i + 1]


AllLinesTerminated(bytes) ==
    /\ bytes # << >>
    /\ bytes[Len(bytes)] = NL
    /\ LET lines == Split(Decode(bytes), NL)
       IN  \A i \in 1..(Len(lines) - 1) : NonBlank(lines[i])

\* C24: final terminator.  A terminator that is the last byte of the source
\* closes the last line and makes no further row: a loaded source of L
\* non-blank lines, each ending in a terminator, has totalRows = L, the rows
\* 0..L-1, and getRow(L) gives none.
C24_NoPhantomFinalRow ==
    (Loaded /\ AllLinesTerminated(file.bytes)) =>
        LET L == Len(NonBlankLines(file.bytes))
        IN  /\ getRowCount = L
            /\ DOMAIN rowIndex = 0..(L - 1)
            /\ GetRowSync(L) = [kind |-> "null"]

\* A source of two terminated lines has loaded in chunks of one byte.
C24_Witness ==
    /\ Loaded
    /\ chunkSize = 1
    /\ AllLinesTerminated(file.bytes)
    /\ Len(NonBlankLines(file.bytes)) = 2
    /\ getRowCount = 2


\* The bytes of a source at the offsets from start up to, not including, end.
BytesIn(bytes, start, end) ==
    LET last == IF end > Len(bytes) THEN Len(bytes) ELSE end
    IN  [i \in 1..(last - start) |-> bytes[start + i]]

\* C25: fetch and hit.  A read of the source starts only for a row n that is
\* not cached, and reads the bytes at [offset, offset + length) of n's index
\* entry; when the call returns, the parsed row, numbered n, is cached under n.
\* While n is cached on a ready store, getRow(n) returns the cached copy and
\* starts no read.
C25_FetchThenHit ==
    /\ [][/\ (gr.pc = "idle" /\ gr'.pc = "await_text") =>
                 /\ ~CacheHas(rowCache, gr'.rowNumber)
                 /\ gr'.text =
                        Decode(BytesIn(file.bytes, rowIndex[gr'.rowNumber].offset,
                                       rowIndex[gr'.rowNumber].offset
                                           + rowIndex[gr'.rowNumber].length))
                 /\ UNCHANGED rowCache
          /\ (gr.pc = "await_text" /\ gr'.pc = "idle" /\ ret'.kind = "row") =>
                 /\ ret'.row = [rowNumber |-> gr.rowNumber,
                                cells |-> ParseCSVLine(Trim(gr.text))]
                 /\ CacheHas(rowCache', gr.rowNumber)
                 /\ CacheValue(rowCache', gr.rowNumber) = ret'.row
         ]_vars
    /\ [](isReady =>
              \A i \in 1..Len(rowCache) :
                  /\ rowCache[i].value.rowNumber = rowCache[i].key
                  /\ GetRowSync(rowCache[i].key) =
                         [kind |-> "hit", row |-> rowCache[i].value])

\* getRow(1) has missed, read row 1 and returned it, and row 1 is now the most
\* recently used entry of a full cache.
C25_Witness ==
    /\ isReady
    /\ gr.pc = "idle"
    /\ ret.kind = "row"
    /\ ret.row.rowNumber = 1
    /\ Len(rowCache) = CacheSize
    /\ rowCache[Len(rowCache)] = [key |-> 1, value |-> ret.row]


\* The source is valid UTF-8: decoding it whole replaces nothing.
WellEncoded(bytes) ==
    \A i \in 1..Len(Decode(bytes)) : Decode(bytes)[i] # Replacement

\* Index (1-based) of the first terminator after the byte offset from.
FirstTerminatorAfter(bytes, from) ==
    CHOOSE i \in (from + 1)..Len(bytes) :
        /\ bytes[i] = NL
        /\ \A j \in (from + 1)..(i - 1) : bytes[j] # NL

\* C26: a line that spans several chunks.  When a chunk of a validly encoded
\* source arrives and the rolling buffer still holds no terminator while the
\* source has more bytes, no row is recorded and the buffer grows by the chunk;
\* when the chunk brings the terminator of a line begun in an earlier chunk,
\* that line becomes one row whose offset is the offset of its first byte and
\* whose length runs through its terminator.
C26_LineAcrossChunks ==
    [][(ld.pc = "await_chunk" /\ ld' # ld /\ phase' = phase /\ WellEncoded(file.bytes)) =>
           LET buffer == ld.buffer \o ld.text
               start == LastLineStart(SubSeq(file.bytes, 1, ld.fileOffset))
           IN  /\ (LastIndexOf(buffer, NL) = -1 /\ ld.chunkEnd < Len(file.bytes)) =>
                      /\ rowIndex' = rowIndex
                      /\ ld'.rowNumber = ld.rowNumber
                      /\ ld'.buffer = buffer
               /\ (LastIndexOf(buffer, NL) >= 0 /\ ld.buffer # << >>) =>
                      /\ ld.rowNumber \in DOMAIN rowIndex'
                      /\ rowIndex'[ld.rowNumber] =
                             [offset |-> start,
                              length |-> FirstTerminatorAfter(file.bytes, ld.fileOffset)
                                             - start]
      ]_vars


\* C27: bookkeeping of the indexing loop.  At the start of every iteration of
\* the chunk loop and at the exit of the loop, the rolling buffer holds no
\* terminator, bufferOffset is 0, and currentRowStart plus the byte length of
\* the buffer is fileOffset.
C27_LoopBookkeeping ==
    (ld.pc \in {"await_chunk", "await_build"}) =>
        /\ LastIndexOf(ld.buffer, NL) = -1
        /\ ld.bufferOffset = 0
        /\ ld.currentRowStart + ByteLen(ld.buffer) = ld.fileOffset


\* C28: the index is immutable once built.  On a ready store with no load in
\* progress, every step that is not the start of a loadFile or a clear (a call
\* or a resumption of getRow or getRows) leaves every index entry, the set of
\* indexed rows, totalRows, the ready flag and the source as they were.
C28_IndexImmutable ==
    [][(isReady /\ ld.pc = "idle" /\ phase' = phase) =>
           UNCHANGED <<rowIndex, totalRows, isIndexed, file>>]_vars

\* After single and batch fetches that filled the cache, a row has just been
\* fetched and the index is still the one loadFile built for the source.
C28_Witness ==
    /\ Loaded
    /\ gs.pc = "returned"
    /\ Len(gs.rows) >= 2
    /\ gr.pc = "idle"
    /\ ret.kind = "row"
    /\ ret.row.rowNumber = 1
    /\ Len(rowCache) = CacheSize
    /\ totalRows >= 2
    /\ rowIndex = IndexOf(file.bytes, chunkSize).idx
    /\ totalRows = IndexOf(file.bytes, chunkSize).total


\* C29: cell count.  Whenever getRow parses the text of a row, the number of
\* cells is one plus the number of commas of that text that lie outside quotes;
\* a text without quotes ends in the cell of what follows its last comma, and
\* an empty text gives exactly one empty cell.
C29_CellCount ==
    [][(gr.pc = "await_text" /\ gr'.pc = "idle" /\ ret'.kind = "row") =>
           LET line == Trim(gr.text)
               cells == ret'.row.cells
               quoted == \E i \in 1..Len(line) : line[i] = QUOTE
           IN  /\ Len(cells) = 1 + Cardinality({i \in 1..Len(line) : IsSeparator(line, i)})
               /\ ~quoted =>
                      cells[Len(cells)] =
                          Trim(SubSeq(line, LastIndexOf(line, COMMA) + 2, Len(line)))
               /\ line = << >> => cells = << << >> >>
      ]_vars

\* getRow has returned the two cells of a line made of a quoted comma and a
\* trailing comma.
C29_Witness ==
    /\ Loaded
    /\ file.bytes = <<QUOTE, COMMA, QUOTE, COMMA, NL>>
    /\ ret.kind = "row"
    /\ ret.row.cells = <<<<COMMA>>, << >>>>


\* C30: index entries lie inside the source.  Once a source is loaded, every
\* indexed row has offset >= 0, length >= 1 and offset + length at most the
\* size of the source, whatever the source and the chunk size.
C30_EntriesInsideSource ==
    Loaded =>
        \A r \in DOMAIN rowIndex :
            /\ rowIndex[r].offset >= 0
            /\ rowIndex[r].length >= 1
            /\ rowIndex[r].offset + rowIndex[r].length <= Len(file.bytes)


\* C31: cache consistency under interleaving.  Whenever the store is ready and
\* holds a source, every cached entry under key n is a row numbered n, n is
\* indexed, and its cells are those parsed from the bytes of the current source
\* at the current index entry of n.
C31_CacheMatchesSource ==
    (isReady /\ ~file.isNull) =>
        \A i \in 1..Len(rowCache) :
            /\ rowCache[i].value.rowNumber = rowCache[i].key
            /\ rowCache[i].key \in DOMAIN rowIndex
            /\ rowCache[i].value.cells =
                   RowCells(file.bytes, rowIndex[rowCache[i].key])


\* C32: what isReady() promises.  Whenever isReady() is true the store holds a
\* source, getRow(n) does not fail with the not-indexed error for any n, and
\* the index and row count are the completed index of that source.
C32_ReadyMeansIndexed ==
    isReady =>
        /\ ~file.isNull
        /\ \A n \in RowArgs : GetRowSync(n).kind # "throw"
        /\ rowIndex = IndexOf(file.bytes, chunkSize).idx
        /\ totalRows = IndexOf(file.bytes, chunkSize).total


\* C33: the render loop never stops.  Once init() has started it, the loop
\* always comes back to a scheduled next frame, also while a later
\* Parallium.loadFile is indexing.
C33_RenderLoopLive == (grid.frame # "none") ~> (grid.frame = "scheduled")


\* C34: the selected cell is inside the grid.  After any clicks, navigation
\* keys and file loads, a selection that is not null has 0 <= row < rows and
\* 0 <= col < columns for the rows and columns the grid has now.
C34_SelectionInsideGrid ==
    ~grid.selected.isNull =>
        /\ 0 <= grid.selected.row
        /\ grid.selected.row < grid.rows
        /\ 0 <= grid.selected.col
        /\ grid.selected.col < grid.columns

\* C35: Enter ends the edit.  Once a keydown of Enter in the edit input has
\* been delivered to the input's listener and to the window's, no cell is
\* being edited and the edit input is hidden.
C35_EnterEndsEditing ==
    (grid.event = [target |-> "input", key |-> "Enter"]) =>
        /\ grid.editing.isNull
        /\ ~grid.inputShown

====
